---- MODULE Spec2Model ----
(***************************************************************************)
(* A model of maze.py: the Maze constructor (_create_cells, the entrance   *)
(* and exit breaks, the randomized recursive backtracker _break_walls_r,   *)
(* the visited reset) and the recursive depth-first solver solve/_solve_r, *)
(* together with the part of Cell (draw, draw_move) that changes or reads  *)
(* the state of a cell.  Lists are 1-based sequences here: the cell the    *)
(* code writes self._cells[col][row] is _cells[col + 1][row + 1].          *)
(***************************************************************************)
EXTENDS Integers, Sequences, FiniteSets, TLC

\* Bounds of the model: the inputs of Maze(...) and the number of solve() calls.
MaxCols == 3
MaxRows == 2
MaxOrigin == 1
MaxCellSize == 1
MaxSolves == 2

\* The value None of the Optional[int] coordinates of a Cell; every coordinate
\* the model computes is >= 0, so -1 stands for no integer.
None == -1

VARIABLES
    num_cols, num_rows,        \* Maze.num_cols, Maze.num_rows
    x1, y1,                    \* Maze.x1, Maze.y1
    cell_size_x, cell_size_y,  \* Maze.cell_size_x, Maze.cell_size_y
    win,                       \* Maze.win: TRUE when a Window is attached
    _cells,                    \* Maze._cells: a list of columns, each a list of Cells
    pc,                        \* where the program is
    ccol, crow,                \* the loop variables col, row of _create_cells
    gstack,                    \* the call stack of _break_walls_r: <<col, row>> frames
    sstack,                    \* the call stack of _solve_r
    ret,                       \* the value the last _solve_r call returned, until its caller reads it
    results,                   \* what each solve() call so far gave its caller
    entered,                   \* how often _solve_r was entered, per cell, in the current solve() call
    error,                     \* the exception that ended __init__, or "none"
    carved,                    \* how often _break_walls_r was entered, per cell
    resets,                    \* how often _reset_cells_visited has run
    moves                      \* the forward draw_move calls of the current solve() call that
                               \* no undo call has followed yet, as <<from, to>> pairs in order

vars == <<num_cols, num_rows, x1, y1, cell_size_x, cell_size_y, win, _cells, pc,
          ccol, crow, gstack, sstack, ret, results, entered, error,
          carved, resets, moves>>

params == <<num_cols, num_rows, x1, y1, cell_size_x, cell_size_y, win>>

-----------------------------------------------------------------------------
(* Python lists *)

\* list[i] raises IndexError unless -len <= i < len
ValidIndex(list, i) == i >= 0 - Len(list) /\ i < Len(list)

\* the 1-based position of list[i], negative i counting from the end
PyIdx(list, i) == IF i >= 0 THEN i + 1 ELSE Len(list) + i + 1

\* self._cells[col][row] does not raise
CanIndex(cs, col, row) ==
    /\ ValidIndex(cs, col)
    /\ ValidIndex(cs[PyIdx(cs, col)], row)

\* self._cells[col][row]
At(cs, col, row) == cs[PyIdx(cs, col)][PyIdx(cs[PyIdx(cs, col)], row)]

\* self._cells[col][row] = cell (the code mutates the Cell object in place)
SetAt(cs, col, row, cell) ==
    [cs EXCEPT ![PyIdx(cs, col)][PyIdx(cs[PyIdx(cs, col)], row)] = cell]

\* Python's truth value of an Optional[int]: None and 0 are false
Falsy(v) == v = None \/ v = 0

-----------------------------------------------------------------------------
(* Cell *)

\* Cell.__init__
Cell(window) ==
    [has_left_wall |-> TRUE, has_right_wall |-> TRUE,
     has_top_wall |-> TRUE, has_bottom_wall |-> TRUE,
     _x1 |-> None, _y1 |-> None, _x2 |-> None, _y2 |-> None,
     visited |-> FALSE, _win |-> window]

\* Cell.draw: without a window nothing happens; with one the cell takes its bounds
\* (the lines drawn on the canvas are not state of the maze)
draw(cell, px1, py1, px2, py2) ==
    IF ~cell._win
    THEN cell
    ELSE [cell EXCEPT !._x1 = px1, !._y1 = py1, !._x2 = px2, !._y2 = py2]

\* Cell.draw_move raises ValueError("cell has no coordinates")
draw_move_raises(cell, to_cell) ==
    /\ cell._win
    /\ \/ Falsy(cell._x1) \/ Falsy(cell._x2) \/ Falsy(cell._y1) \/ Falsy(cell._y2)
       \/ Falsy(to_cell._x1) \/ Falsy(to_cell._x2)
       \/ Falsy(to_cell._y1) \/ Falsy(to_cell._y2)

-----------------------------------------------------------------------------
(* Maze: construction *)

\* Maze._draw_cell (with _animate, which only refreshes the window)
_draw_cell(cs, col, row) ==
    LET px1 == x1 + (cell_size_x * col)
        py1 == y1 + (cell_size_y * row)
        px2 == px1 + cell_size_x
        py2 == py1 + cell_size_y
    IN  SetAt(cs, col, row, draw(At(cs, col, row), px1, py1, px2, py2))

\* Maze._break_wall: an unknown wall name changes no flag; the cell is redrawn
_break_wall(cs, col, row, wall) ==
    LET cell == At(cs, col, row)
        broken ==
            IF wall = "top" THEN [cell EXCEPT !.has_top_wall = FALSE]
            ELSE IF wall = "bottom" THEN [cell EXCEPT !.has_bottom_wall = FALSE]
            ELSE IF wall = "left" THEN [cell EXCEPT !.has_left_wall = FALSE]
            ELSE IF wall = "right" THEN [cell EXCEPT !.has_right_wall = FALSE]
            ELSE cell
    IN  _draw_cell(SetAt(cs, col, row, broken), col, row)

\* empty_columns with a column too many, as range(num_cols + 1) would build
empty_columns_extra(n) == [c \in 1..(n + 1) |-> <<>>]

\* the list comprehension of _create_cells: one empty column per col in range(num_cols)
\* ([] * num_rows is the empty list whatever num_rows is)
empty_columns(n) == [c \in 1..n |-> <<>>]

\* the body of the loops of _create_cells: append a Cell to column col and draw it
append_cell(cs, col, row) ==
    _draw_cell([cs EXCEPT ![col + 1] = Append(@, Cell(win))], col, row)

\* the loops of _create_cells still have a (col, row) to run
create_loop_running(col, row) == col < num_cols /\ row < num_rows

\* the (col, row) the loops of _create_cells run after (col, row)
create_loop_next(col, row) ==
    IF row + 1 < num_rows THEN <<col, row + 1>> ELSE <<col + 1, 0>>

\* _break_entrance_and_exit breaking the exit cell's left wall instead of its right
_break_entrance_and_exit_left(cs) ==
    _break_wall(_break_wall(cs, 0, 0, "left"), num_cols - 1, num_rows - 1, "left")

\* Maze._break_entrance_and_exit, once both cells are known to exist
_break_entrance_and_exit(cs) ==
    _break_wall(_break_wall(cs, 0, 0, "left"), num_cols - 1, num_rows - 1, "right")

\* the cell the top-level _break_walls_r call starts from
carve_start == <<num_cols \div 2, num_rows \div 2>>

\* the entry of _break_walls_r: self._cells[col][row].visited = True
mark_visited(cs, col, row) ==
    SetAt(cs, col, row, [At(cs, col, row) EXCEPT !.visited = TRUE])

\* possible_cells_carve listing the right neighbour whether visited or not
possible_cells_carve_revisits(cs, col, row) ==
    (IF col - 1 >= 0 /\ At(cs, col - 1, row).visited = FALSE
        THEN <<(<<col - 1, row>>)>> ELSE <<>>)
    \o (IF col + 1 < num_cols
        THEN <<(<<col + 1, row>>)>> ELSE <<>>)
    \o (IF row - 1 >= 0 /\ At(cs, col, row - 1).visited = FALSE
        THEN <<(<<col, row - 1>>)>> ELSE <<>>)
    \o (IF row + 1 < num_rows /\ At(cs, col, row + 1).visited = FALSE
        THEN <<(<<col, row + 1>>)>> ELSE <<>>)

\* possible_cells_carve without the left neighbour
possible_cells_carve_no_left(cs, col, row) ==
    (IF col + 1 < num_cols /\ At(cs, col + 1, row).visited = FALSE
        THEN <<(<<col + 1, row>>)>> ELSE <<>>)
    \o (IF row - 1 >= 0 /\ At(cs, col, row - 1).visited = FALSE
        THEN <<(<<col, row - 1>>)>> ELSE <<>>)
    \o (IF row + 1 < num_rows /\ At(cs, col, row + 1).visited = FALSE
        THEN <<(<<col, row + 1>>)>> ELSE <<>>)

\* possible_cells_to_visit of _break_walls_r, in the order the code appends
possible_cells_carve(cs, col, row) ==
    (IF col - 1 >= 0 /\ At(cs, col - 1, row).visited = FALSE
        THEN <<(<<col - 1, row>>)>> ELSE <<>>)
    \o (IF col + 1 < num_cols /\ At(cs, col + 1, row).visited = FALSE
        THEN <<(<<col + 1, row>>)>> ELSE <<>>)
    \o (IF row - 1 >= 0 /\ At(cs, col, row - 1).visited = FALSE
        THEN <<(<<col, row - 1>>)>> ELSE <<>>)
    \o (IF row + 1 < num_rows /\ At(cs, col, row + 1).visited = FALSE
        THEN <<(<<col, row + 1>>)>> ELSE <<>>)

\* break_between with top and bottom swapped in its last two ifs
break_between_swapped(cs, col, row, next_col, next_row) ==
    LET a == IF col < next_col
             THEN _break_wall(_break_wall(cs, col, row, "right"), next_col, next_row, "left")
             ELSE cs
        b == IF col > next_col
             THEN _break_wall(_break_wall(a, col, row, "left"), next_col, next_row, "right")
             ELSE a
        c == IF row < next_row
             THEN _break_wall(_break_wall(b, col, row, "top"), next_col, next_row, "bottom")
             ELSE b
        d == IF row > next_row
             THEN _break_wall(_break_wall(c, col, row, "bottom"), next_col, next_row, "top")
             ELSE c
    IN  d

\* break_between breaking the wall on the current cell's side only
break_between_one_side(cs, col, row, next_col, next_row) ==
    LET a == IF col < next_col THEN _break_wall(cs, col, row, "right") ELSE cs
        b == IF col > next_col THEN _break_wall(a, col, row, "left") ELSE a
        c == IF row < next_row THEN _break_wall(b, col, row, "bottom") ELSE b
        d == IF row > next_row THEN _break_wall(c, col, row, "top") ELSE c
    IN  d

\* the four ifs of _break_walls_r that break the wall between (col, row) and the
\* chosen neighbour, on both sides
break_between(cs, col, row, next_col, next_row) ==
    LET a == IF col < next_col
             THEN _break_wall(_break_wall(cs, col, row, "right"), next_col, next_row, "left")
             ELSE cs
        b == IF col > next_col
             THEN _break_wall(_break_wall(a, col, row, "left"), next_col, next_row, "right")
             ELSE a
        c == IF row < next_row
             THEN _break_wall(_break_wall(b, col, row, "bottom"), next_col, next_row, "top")
             ELSE b
        d == IF row > next_row
             THEN _break_wall(_break_wall(c, col, row, "top"), next_col, next_row, "bottom")
             ELSE c
    IN  d

\* _reset_cells_visited with its inner loop one row short, range(num_rows - 1)
_reset_cells_visited_short(cs) ==
    [c \in 1..Len(cs) |->
        [r \in 1..Len(cs[c]) |->
            IF c - 1 < num_cols /\ r - 1 < num_rows - 1
            THEN [cs[c][r] EXCEPT !.visited = FALSE]
            ELSE cs[c][r]]]

\* Maze._reset_cells_visited
_reset_cells_visited(cs) ==
    [c \in 1..Len(cs) |->
        [r \in 1..Len(cs[c]) |->
            IF c - 1 < num_cols /\ r - 1 < num_rows
            THEN [cs[c][r] EXCEPT !.visited = FALSE]
            ELSE cs[c][r]]]

\* the cells of the grid, as (col, row) pairs
Coords == (0..(num_cols - 1)) \X (0..(num_rows - 1))

-----------------------------------------------------------------------------
(* Maze: solving *)

\* solve_mark that also clears the cell's left wall
solve_mark_breaks_wall(cs, col, row) ==
    SetAt(cs, col, row,
          [At(cs, col, row) EXCEPT !.visited = TRUE, !.has_left_wall = FALSE])

\* the entry of _solve_r: current_cell.visited = True
solve_mark(cs, col, row) ==
    SetAt(cs, col, row, [At(cs, col, row) EXCEPT !.visited = TRUE])

\* is_exit comparing with the dimensions instead of the last indices
is_exit_off_by_one(col, row) == col = num_cols /\ row = num_rows

\* col == self.num_cols - 1 and row == self.num_rows - 1
is_exit(col, row) == col = num_cols - 1 /\ row = num_rows - 1

\* possible_cells_solve listing the left neighbour whether visited or not
possible_cells_solve_revisits(cs, col, row) ==
    (IF col - 1 >= 0
        THEN <<(<<col - 1, row>>)>> ELSE <<>>)
    \o (IF col + 1 < num_cols /\ At(cs, col + 1, row).visited = FALSE
        THEN <<(<<col + 1, row>>)>> ELSE <<>>)
    \o (IF row - 1 >= 0 /\ At(cs, col, row - 1).visited = FALSE
        THEN <<(<<col, row - 1>>)>> ELSE <<>>)
    \o (IF row + 1 < num_rows /\ At(cs, col, row + 1).visited = FALSE
        THEN <<(<<col, row + 1>>)>> ELSE <<>>)

\* possible_cells_to_visit of _solve_r, in the order the code appends; the list is
\* built once, on entry, and not looked at again when the loop reaches an element
possible_cells_solve(cs, col, row) ==
    (IF col - 1 >= 0 /\ At(cs, col - 1, row).visited = FALSE
        THEN <<(<<col - 1, row>>)>> ELSE <<>>)
    \o (IF col + 1 < num_cols /\ At(cs, col + 1, row).visited = FALSE
        THEN <<(<<col + 1, row>>)>> ELSE <<>>)
    \o (IF row - 1 >= 0 /\ At(cs, col, row - 1).visited = FALSE
        THEN <<(<<col, row - 1>>)>> ELSE <<>>)
    \o (IF row + 1 < num_rows /\ At(cs, col, row + 1).visited = FALSE
        THEN <<(<<col, row + 1>>)>> ELSE <<>>)

\* can_move whose first if lacks its wall condition
can_move_right_unchecked(cs, col, row, next_col, next_row) ==
    LET current_cell == At(cs, col, row)
        next_cell == At(cs, next_col, next_row)
    IN  \/ col < next_col
        \/ col > next_col /\ ~current_cell.has_left_wall /\ ~next_cell.has_right_wall
        \/ row < next_row /\ ~current_cell.has_bottom_wall /\ ~next_cell.has_top_wall
        \/ row > next_row /\ ~current_cell.has_top_wall /\ ~next_cell.has_bottom_wall

\* the conditions of the four ifs in the for loop of _solve_r: the neighbour lies on
\* that side and the wall is absent on both sides (at most one of the four can hold
\* for a neighbour, which differs from the cell in one coordinate)
can_move(cs, col, row, next_col, next_row) ==
    LET current_cell == At(cs, col, row)
        next_cell == At(cs, next_col, next_row)
    IN  \/ col < next_col /\ ~current_cell.has_right_wall /\ ~next_cell.has_left_wall
        \/ col > next_col /\ ~current_cell.has_left_wall /\ ~next_cell.has_right_wall
        \/ row < next_row /\ ~current_cell.has_bottom_wall /\ ~next_cell.has_top_wall
        \/ row > next_row /\ ~current_cell.has_top_wall /\ ~next_cell.has_bottom_wall

\* current_cell.draw_move(next_cell) that does not raise: a forward move from a to b
forward_move(ms, a, b) == Append(ms, <<a, b>>)

\* undo_move that leaves the forward move in place
undo_move_forgotten(ms, a, b) == ms

\* current_cell.draw_move(next_cell, undo=True) that does not raise: the last forward
\* move from a to b is undone (none is, when there is no such move)
undo_move(ms, a, b) ==
    LET at == {i \in 1..Len(ms) : ms[i] = <<a, b>>}
    IN  IF at = {}
        THEN ms
        ELSE LET last == CHOOSE i \in at : \A j \in at : j <= i
             IN  SubSeq(ms, 1, last - 1) \o SubSeq(ms, last + 1, Len(ms))

\* the frame of a _solve_r(col, row) call that has run up to its for loop: cs is the
\* grid after the call marked its cell; todo is what the loop has still to run,
\* its head being the element the loop is at
solve_frame(cs, col, row) ==
    [col |-> col, row |-> row,
     todo |-> IF is_exit(col, row) THEN <<>> ELSE possible_cells_solve(cs, col, row)]

-----------------------------------------------------------------------------
(* The state when Maze.__init__ has stored its arguments and _create_cells has *)
(* built the list of empty columns.                                          *)

Init ==
    /\ num_cols \in (-1)..MaxCols
    /\ num_rows \in (-1)..MaxRows
    /\ x1 \in 0..MaxOrigin
    /\ y1 \in 0..MaxOrigin
    /\ cell_size_x \in 1..MaxCellSize
    /\ cell_size_y \in 1..MaxCellSize
    /\ win \in BOOLEAN
    /\ _cells = empty_columns(num_cols)
    /\ pc = "create"
    /\ ccol = 0
    /\ crow = 0
    /\ gstack = <<>>
    /\ sstack = <<>>
    /\ ret = "none"
    /\ results = <<>>
    /\ entered = [p \in Coords |-> 0]
    /\ error = "none"
    /\ carved = [p \in Coords |-> 0]
    /\ resets = 0
    /\ moves = <<>>

\* one run of the loop body of _create_cells
CreateCell ==
    /\ pc = "create"
    /\ create_loop_running(ccol, crow)
    /\ _cells' = append_cell(_cells, ccol, crow)
    /\ ccol' = create_loop_next(ccol, crow)[1]
    /\ crow' = create_loop_next(ccol, crow)[2]
    /\ UNCHANGED <<params, pc, gstack, sstack, ret, results, entered, error>>
    /\ UNCHANGED <<carved, resets, moves>>

\* self._break_entrance_and_exit(): IndexError when cell (0, 0) or the exit cell
\* does not exist, which ends __init__
BreakEntranceAndExit ==
    /\ pc = "create"
    /\ ~create_loop_running(ccol, crow)
    /\ IF CanIndex(_cells, 0, 0) /\ CanIndex(_cells, num_cols - 1, num_rows - 1)
       THEN /\ _cells' = _break_entrance_and_exit(_cells)
            /\ pc' = "break_walls"
            /\ error' = error
       ELSE /\ _cells' = IF CanIndex(_cells, 0, 0)
                         THEN _break_wall(_cells, 0, 0, "left")
                         ELSE _cells
            /\ pc' = "raised"
            /\ error' = "IndexError"
    /\ UNCHANGED <<params, ccol, crow, gstack, sstack, ret, results, entered>>
    /\ UNCHANGED <<carved, resets, moves>>

\* self._break_walls_r(self.num_cols // 2, self.num_rows // 2): the top-level call
BreakWallsCall ==
    /\ pc = "break_walls"
    /\ _cells' = mark_visited(_cells, carve_start[1], carve_start[2])
    /\ gstack' = <<carve_start>>
    /\ carved' = [carved EXCEPT ![carve_start] = @ + 1]
    /\ pc' = "carve"
    /\ UNCHANGED <<params, ccol, crow, sstack, ret, results, entered, error>>
    /\ UNCHANGED <<resets, moves>>

\* one run of the while loop of the innermost _break_walls_r call: return when no
\* neighbour is left, else break the walls to a random one and call into it
BreakWallsStep ==
    /\ pc = "carve"
    /\ LET col == gstack[Len(gstack)][1]
           row == gstack[Len(gstack)][2]
           possible == possible_cells_carve(_cells, col, row)
       IN  IF Len(possible) = 0
           THEN /\ gstack' = SubSeq(gstack, 1, Len(gstack) - 1)
                /\ pc' = IF Len(gstack) = 1 THEN "reset" ELSE "carve"
                /\ _cells' = _cells
                /\ carved' = carved
           ELSE \E i \in 1..Len(possible) :
                    LET next_col == possible[i][1]
                        next_row == possible[i][2]
                    IN  /\ _cells' = mark_visited(
                                         break_between(_cells, col, row, next_col, next_row),
                                         next_col, next_row)
                        /\ gstack' = Append(gstack, <<next_col, next_row>>)
                        /\ carved' = [carved EXCEPT ![<<next_col, next_row>>] = @ + 1]
                        /\ pc' = "carve"
    /\ UNCHANGED <<params, ccol, crow, sstack, ret, results, entered, error>>
    /\ UNCHANGED <<resets, moves>>

\* __init__ returning without the call of _reset_cells_visited
ResetCellsVisitedSkipped ==
    /\ pc = "reset"
    /\ pc' = "ready"
    /\ UNCHANGED <<params, _cells, ccol, crow, gstack, sstack, ret, results, entered, error>>
    /\ UNCHANGED <<carved, resets, moves>>

\* self._reset_cells_visited(), after which __init__ returns
ResetCellsVisited ==
    /\ pc = "reset"
    /\ _cells' = _reset_cells_visited(_cells)
    /\ resets' = resets + 1
    /\ pc' = "ready"
    /\ UNCHANGED <<params, ccol, crow, gstack, sstack, ret, results, entered, error>>
    /\ UNCHANGED <<carved, moves>>

\* the innermost _solve_r call
Top == sstack[Len(sstack)]

\* the innermost _solve_r call returns v: to its caller, or, from the top-level call,
\* as the result of solve()
SolveReturns(v) ==
    IF Len(sstack) = 1
    THEN /\ results' = Append(results, v)
         /\ sstack' = <<>>
         /\ ret' = "none"
         /\ pc' = "ready"
    ELSE /\ results' = results
         /\ sstack' = SubSeq(sstack, 1, Len(sstack) - 1)
         /\ ret' = v
         /\ pc' = "solve"

\* draw_move raises ValueError: the exception leaves every _solve_r call and solve()
SolveRaises ==
    /\ results' = Append(results, "ValueError")
    /\ sstack' = <<>>
    /\ ret' = "none"
    /\ pc' = "ready"

\* maze.solve(): the call self._solve_r(col=0, row=0) up to its for loop
Solve ==
    /\ pc = "ready"
    /\ Len(results) < MaxSolves
    /\ _cells' = solve_mark(_cells, 0, 0)
    /\ sstack' = <<solve_frame(_cells', 0, 0)>>
    /\ entered' = [p \in Coords |-> IF p = <<0, 0>> THEN 1 ELSE 0]
    /\ ret' = "none"
    /\ moves' = <<>>
    /\ pc' = "solve"
    /\ UNCHANGED <<params, ccol, crow, gstack, results, error, carved, resets>>

\* return True at the exit cell; return False with no neighbour listed or the for
\* loop run to its end
SolveReturn ==
    /\ pc = "solve"
    /\ ret = "none"
    /\ is_exit(Top.col, Top.row) \/ Top.todo = <<>>
    /\ SolveReturns(IF is_exit(Top.col, Top.row) THEN "True" ELSE "False")
    /\ UNCHANGED <<params, _cells, ccol, crow, gstack, entered, error>>
    /\ UNCHANGED <<carved, resets, moves>>

\* the for loop is at a neighbour none of the four ifs lets it move to
SolveSkip ==
    /\ pc = "solve"
    /\ ret = "none"
    /\ ~is_exit(Top.col, Top.row)
    /\ Top.todo # <<>>
    /\ ~can_move(_cells, Top.col, Top.row, Head(Top.todo)[1], Head(Top.todo)[2])
    /\ sstack' = [sstack EXCEPT ![Len(sstack)].todo = Tail(@)]
    /\ UNCHANGED <<params, _cells, pc, ccol, crow, gstack, ret, results, entered, error>>
    /\ UNCHANGED <<carved, resets, moves>>

\* the for loop is at a neighbour it can move to: current_cell.draw_move(next_cell),
\* then the call self._solve_r(next_col, next_row) up to its for loop
SolveMove ==
    /\ pc = "solve"
    /\ ret = "none"
    /\ ~is_exit(Top.col, Top.row)
    /\ Top.todo # <<>>
    /\ LET next_col == Head(Top.todo)[1]
           next_row == Head(Top.todo)[2]
       IN  /\ can_move(_cells, Top.col, Top.row, next_col, next_row)
           /\ IF draw_move_raises(At(_cells, Top.col, Top.row), At(_cells, next_col, next_row))
              THEN /\ SolveRaises
                   /\ UNCHANGED <<_cells, entered, moves>>
              ELSE /\ moves' = forward_move(moves, <<Top.col, Top.row>>, <<next_col, next_row>>)
                   /\ _cells' = solve_mark(_cells, next_col, next_row)
                   /\ sstack' = Append(sstack, solve_frame(_cells', next_col, next_row))
                   /\ entered' = [entered EXCEPT ![<<next_col, next_row>>] = @ + 1]
                   /\ UNCHANGED <<pc, ret, results>>
    /\ UNCHANGED <<params, ccol, crow, gstack, error, carved, resets>>

\* the recursive call has returned: True is returned on at once; after False the move
\* is undone, current_cell.draw_move(next_cell, undo=True), and the loop goes on
SolveResume ==
    /\ pc = "solve"
    /\ ret # "none"
    /\ IF ret = "True"
       THEN SolveReturns("True") /\ moves' = moves
       ELSE IF draw_move_raises(At(_cells, Top.col, Top.row),
                                At(_cells, Head(Top.todo)[1], Head(Top.todo)[2]))
            THEN SolveRaises /\ moves' = moves
            ELSE /\ moves' = undo_move(moves, <<Top.col, Top.row>>, Head(Top.todo))
                 /\ sstack' = [sstack EXCEPT ![Len(sstack)].todo = Tail(@)]
                 /\ ret' = "none"
                 /\ UNCHANGED <<pc, results>>
    /\ UNCHANGED <<params, _cells, ccol, crow, gstack, entered, error>>
    /\ UNCHANGED <<carved, resets>>

Next ==
    \/ CreateCell
    \/ BreakEntranceAndExit
    \/ BreakWallsCall
    \/ BreakWallsStep
    \/ ResetCellsVisited
    \/ Solve
    \/ SolveReturn
    \/ SolveSkip
    \/ SolveMove
    \/ SolveResume

Spec == Init /\ [][Next]_vars

-----------------------------------------------------------------------------
(* Vocabulary of the properties *)

\* __init__ has returned a Maze
Constructed == pc \in {"ready", "solve"}

\* the loops of _create_cells have run and __init__ has not raised
Created == pc \in {"break_walls", "carve", "reset", "ready", "solve"}

\* cell p of the grid has been appended to its column
Exists(p) == p[1] + 1 <= Len(_cells) /\ p[2] + 1 <= Len(_cells[p[1] + 1])

CellAt(p) == _cells[p[1] + 1][p[2] + 1]

RightOf(p) == <<p[1] + 1, p[2]>>
Below(p) == <<p[1], p[2] + 1>>

\* there is a passage from p to the cell q on its right or below it: the wall
\* between them is absent on both sides
Open(p, q) ==
    \/ q = RightOf(p) /\ ~CellAt(p).has_right_wall /\ ~CellAt(q).has_left_wall
    \/ q = Below(p) /\ ~CellAt(p).has_bottom_wall /\ ~CellAt(q).has_top_wall

\* the cells of the grid next to p
Neighbours(p) ==
    {RightOf(p), Below(p), <<p[1] - 1, p[2]>>, <<p[1], p[2] - 1>>} \cap Coords

\* the passages of the maze, each once
Passages ==
    {<<p, RightOf(p)>> : p \in {q \in Coords : RightOf(q) \in Coords /\ Open(q, RightOf(q))}}
    \cup {<<p, Below(p)>> : p \in {q \in Coords : Below(q) \in Coords /\ Open(q, Below(q))}}

Linked(p, q) == Open(p, q) \/ Open(q, p)

\* the cells joined to a cell of Seen by a path of passages, New being the cells
\* of Seen whose neighbours have not been looked at yet
RECURSIVE ReachFrom(_, _)
ReachFrom(Seen, New) ==
    LET More == UNION {{q \in Neighbours(p) : Linked(p, q)} : p \in New} \ Seen
    IN  IF More = {} THEN Seen ELSE ReachFrom(Seen \cup More, More)

Reach(S) == ReachFrom(S, S)

Degree(p) == Cardinality({q \in Neighbours(p) : Linked(p, q)})

\* the four wall flags of every cell
Walls(cs) ==
    [c \in 1..Len(cs) |->
        [r \in 1..Len(cs[c]) |->
            <<cs[c][r].has_left_wall, cs[c][r].has_right_wall,
              cs[c][r].has_top_wall, cs[c][r].has_bottom_wall>>]]

RECURSIVE SumEntered(_)
SumEntered(S) ==
    IF S = {} THEN 0
    ELSE LET p == CHOOSE q \in S : TRUE IN entered[p] + SumEntered(S \ {p})

-----------------------------------------------------------------------------
(* The claims *)

\* C1: once construction has finished, the passage graph is a spanning tree: every
\* cell is joined to (0, 0) by passages and there are exactly
\* num_cols * num_rows - 1 passages (a connected graph with one edge fewer than
\* nodes has no cycle); the entrance and exit breaks are no passages.
C1_SpanningTree ==
    Constructed =>
        /\ Reach({<<0, 0>>}) = Coords
        /\ Cardinality(Passages) = (num_cols * num_rows) - 1

\* a constructed 3 x 2 maze whose tree branches: some cell has three passages
C1_Witness ==
    /\ pc = "ready"
    /\ num_cols = 3 /\ num_rows = 2
    /\ \E p \in Coords : Degree(p) = 3

\* C2: the first solve() call after construction returns True.
C2_FirstSolveTrue ==
    Len(results) >= 1 => results[1] = "True"

\* the part of C2 the code keeps: without a window, or with the maze's origin off
\* both axes, the first solve() call returns True
C2_FirstSolveTrueOffAxes ==
    (Len(results) >= 1 /\ (~win \/ (x1 > 0 /\ y1 > 0))) => results[1] = "True"

\* C3: from the entrance and exit breaks on, through carving, reset and solving,
\* cell (0, 0) has no left wall and cell (num_cols - 1, num_rows - 1) no right wall.
C3_EntranceExitOpen ==
    Created =>
        /\ ~CellAt(<<0, 0>>).has_left_wall
        /\ ~CellAt(<<num_cols - 1, num_rows - 1>>).has_right_wall

\* a solve() call has returned on a maze of more than one cell
C3_Witness ==
    /\ pc = "ready"
    /\ Len(results) >= 1
    /\ num_cols = 3 /\ num_rows = 2
    /\ ~CellAt(<<0, 0>>).has_left_wall
    /\ ~CellAt(<<2, 1>>).has_right_wall

\* C4: when __init__ returns, every cell's visited flag is False.
C4_VisitedResetAtReturn ==
    (pc = "ready" /\ results = <<>>) =>
        \A p \in Coords : ~CellAt(p).visited

\* __init__ has just returned a 3 x 2 maze, every cell of which carving had visited
C4_Witness ==
    /\ pc = "ready"
    /\ results = <<>>
    /\ num_cols = 3 /\ num_rows = 2
    /\ Cardinality(Passages) = 5

\* C5: once the cells are created, the grid has num_cols columns of num_rows cells
\* each, through generation and solving.
C5_Dimensions ==
    Created =>
        /\ Len(_cells) = num_cols
        /\ \A c \in 1..Len(_cells) : Len(_cells[c]) = num_rows

\* a 3 x 2 grid on which two solve() calls have run
C5_Witness ==
    /\ pc = "ready"
    /\ Len(results) = 2
    /\ Len(_cells) = 3
    /\ Len(_cells[1]) = 2

\* C6: between the steps of the generator (one loop run of _break_walls_r being one
\* step), after construction and throughout solve, the wall flags of adjacent
\* cells agree: right of (c, r) with left of (c + 1, r), bottom of (c, r) with top
\* of (c, r + 1).
C6_WallsAgree ==
    \A p \in Coords :
        /\ (Exists(p) /\ RightOf(p) \in Coords /\ Exists(RightOf(p))) =>
               CellAt(p).has_right_wall = CellAt(RightOf(p)).has_left_wall
        /\ (Exists(p) /\ Below(p) \in Coords /\ Exists(Below(p))) =>
               CellAt(p).has_bottom_wall = CellAt(Below(p)).has_top_wall

\* in the middle of carving: a wall between two cells is broken, on both sides, and
\* some cell is still unvisited
C6_Witness ==
    /\ pc = "carve"
    /\ \E p \in Coords :
           /\ RightOf(p) \in Coords
           /\ ~CellAt(p).has_right_wall
           /\ ~CellAt(RightOf(p)).has_left_wall
    /\ \E p \in Coords :
           /\ Below(p) \in Coords
           /\ ~CellAt(p).has_bottom_wall
           /\ ~CellAt(Below(p)).has_top_wall
    /\ \E p \in Coords : ~CellAt(p).visited

\* C7: a second solve() call on a maze whose first solve() returned True returns
\* True as well.
C7_SecondSolveTrue ==
    (Len(results) >= 2 /\ results[1] = "True") => results[2] = "True"

\* C8: no step during or after solve() changes a wall flag of a cell.
C8_SolveKeepsWalls ==
    [][Constructed => Walls(_cells') = Walls(_cells)]_vars

\* a solve() call that had to backtrack has returned: it visited a cell that is not
\* on the path it found
C8_Witness ==
    /\ pc = "ready"
    /\ Len(results) = 1
    /\ results[1] = "True"
    /\ \E p \in Coords : CellAt(p).visited /\ Degree(p) = 1 /\ p # <<0, 0>>
                         /\ ~is_exit(p[1], p[2])

\* C9: construction with num_rows <= 0 or num_cols <= 0 ends with an
\* InvalidDimension error.
C9_InvalidDimension ==
    ((num_rows <= 0 \/ num_cols <= 0) /\ pc # "create") =>
        (pc = "raised" /\ error = "InvalidDimension")

\* what the code does instead: construction with a dimension <= 0 ends with the
\* IndexError of the first _break_wall(0, 0, "left"), and no other construction raises
C9_IndexErrorInstead ==
    pc # "create" =>
        ((num_rows <= 0 \/ num_cols <= 0) <=> (pc = "raised" /\ error = "IndexError"))

\* C10: in one solve() call _solve_r is entered at most once per cell, so there are
\* at most num_cols * num_rows calls and as many frames on the stack.
C10_EnteredOncePerCell ==
    Constructed =>
        /\ \A p \in Coords : entered[p] <= 1
        /\ SumEntered(Coords) <= num_cols * num_rows
        /\ Len(sstack) <= SumEntered(Coords)

\* the parenthesis of C10: a recursive call goes only into a cell whose visited flag
\* is False, and only the first entry of a cell in a solve() call counts up
C10_RecursesIntoUnvisited ==
    [][\A p \in Coords :
           (pc = "solve" /\ entered'[p] > entered[p]) =>
               (entered[p] = 0 /\ ~CellAt(p).visited)]_vars

\* a second solve() call is running and has recursed: it entered a cell other than
\* (0, 0), which the first call had left unvisited, on a 3 x 2 grid
C10_Witness ==
    /\ pc = "solve"
    /\ Len(results) = 1
    /\ num_cols = 3 /\ num_rows = 2
    /\ \E p \in Coords : p # <<0, 0>> /\ entered[p] = 1

\* C10, termination: under weak fairness of the program's steps (it is one thread
\* that runs on), every solve() call returns or raises
FairSpec == Spec /\ WF_vars(Next)

C10_SolveTerminates == (pc = "solve") ~> (pc = "ready")

\* C11: the visited reset runs exactly once, after the top-level _break_walls_r
\* call has returned and before the first _solve_r call, and no flag generation set
\* is read as True by the solver: up to the end of carving no reset has run, from
\* the return of __init__ on exactly one has, no carve frame is left when it has,
\* and during the first solve() call the visited cells are exactly the cells
\* _solve_r has entered.
C11_ResetOnceBetweenPasses ==
    /\ pc \in {"create", "raised", "break_walls", "carve", "reset"} => resets = 0
    /\ Constructed => resets = 1
    /\ resets >= 1 => gstack = <<>>
    /\ (pc = "ready" /\ results = <<>>) => \A p \in Coords : ~CellAt(p).visited
    /\ (pc = "solve" /\ results = <<>>) =>
           \A p \in Coords : CellAt(p).visited <=> entered[p] >= 1

\* the first solve() call is running on a 3 x 2 maze all of whose cells carving had
\* entered, and has left a cell unvisited
C11_Witness ==
    /\ pc = "solve"
    /\ results = <<>>
    /\ resets = 1
    /\ num_cols = 3 /\ num_rows = 2
    /\ \A p \in Coords : carved[p] = 1
    /\ \E p \in Coords : ~CellAt(p).visited
    /\ \E p \in Coords : p # <<0, 0>> /\ CellAt(p).visited

\* C12: on a 1 x 1 grid generation makes no recursive carve call (only the
\* top-level call enters _break_walls_r) and breaks no wall but the left and right
\* wall of cell (0, 0), and every solve() call returns True from its first _solve_r
\* call, with no neighbour listed, no move made and no second call.
C12_OneByOne ==
    (num_cols = 1 /\ num_rows = 1) =>
        /\ Len(gstack) <= 1
        /\ carved[<<0, 0>>] <= 1
        /\ Exists(<<0, 0>>) =>
               CellAt(<<0, 0>>).has_top_wall /\ CellAt(<<0, 0>>).has_bottom_wall
        /\ Created =>
               ~CellAt(<<0, 0>>).has_left_wall /\ ~CellAt(<<0, 0>>).has_right_wall
        /\ Len(sstack) <= 1
        /\ \A i \in 1..Len(sstack) : sstack[i].todo = <<>>
        /\ entered[<<0, 0>>] <= 1
        /\ moves = <<>>
        /\ \A i \in 1..Len(results) : results[i] = "True"

\* a 1 x 1 maze with a window, its cell drawn at the origin, has been generated
\* and solved
C12_Witness ==
    /\ num_cols = 1 /\ num_rows = 1
    /\ win /\ x1 = 0 /\ y1 = 0
    /\ pc = "ready"
    /\ carved[<<0, 0>>] = 1
    /\ results = <<"True">>

\* in grid cs the wall between the adjacent cells p and q is absent on both sides
LinkedIn(cs, p, q) ==
    \/ can_move(cs, p[1], p[2], q[1], q[2])
    \/ can_move(cs, q[1], q[2], p[1], p[2])

\* C13: a step of carving that changes a wall flag is a call from the current cell
\* into a neighbouring cell of the grid whose visited flag is False, and changes
\* flags of these two cells only, leaving a passage between them; _break_walls_r
\* enters a cell only while its visited flag is False, no cell twice, and when the
\* top-level call returns it has entered every cell once and every visited flag
\* is True.
C13_CarveIntoUnvisitedOnce ==
    [][/\ (pc = "carve" /\ Walls(_cells') # Walls(_cells)) =>
              LET cur == gstack[Len(gstack)]
                  nxt == gstack'[Len(gstack')]
              IN  /\ Len(gstack') = Len(gstack) + 1
                  /\ nxt \in Neighbours(cur)
                  /\ ~CellAt(nxt).visited
                  /\ ~Linked(cur, nxt)
                  /\ LinkedIn(_cells', cur, nxt)
                  /\ \A p \in Coords \ {cur, nxt} :
                         Walls(_cells')[p[1] + 1][p[2] + 1] = Walls(_cells)[p[1] + 1][p[2] + 1]
       /\ \A p \in Coords :
              /\ carved'[p] <= 1
              /\ carved'[p] > carved[p] => ~CellAt(p).visited /\ CellAt(p)'.visited
       /\ pc' = "reset" =>
              \A p \in Coords : carved'[p] = 1 /\ CellAt(p)'.visited
      ]_vars

\* carving of a 3 x 2 grid has just ended after a branch: every cell was entered
\* once, all flags are True, and some cell has three passages
C13_Witness ==
    /\ pc = "reset"
    /\ num_cols = 3 /\ num_rows = 2
    /\ \A p \in Coords : carved[p] = 1 /\ CellAt(p).visited
    /\ \E p \in Coords : Degree(p) = 3

\* the cell of a _solve_r frame
FrameCell(f) == <<f.col, f.row>>

\* C14: every recursive _solve_r call goes from the cell of the calling frame into
\* a cell of the grid next to it, whose visited flag is False, with the wall
\* between the two absent on the caller's side and on the callee's side.
C14_SolverRespectsWalls ==
    [][(pc = "solve" /\ Len(sstack') > Len(sstack)) =>
           LET a == FrameCell(Top)
               b == FrameCell(sstack'[Len(sstack')])
           IN  /\ Len(sstack') = Len(sstack) + 1
               /\ b \in Neighbours(a)
               /\ ~CellAt(b).visited
               /\ b = RightOf(a) =>
                      ~CellAt(a).has_right_wall /\ ~CellAt(b).has_left_wall
               /\ a = RightOf(b) =>
                      ~CellAt(a).has_left_wall /\ ~CellAt(b).has_right_wall
               /\ b = Below(a) =>
                      ~CellAt(a).has_bottom_wall /\ ~CellAt(b).has_top_wall
               /\ a = Below(b) =>
                      ~CellAt(a).has_top_wall /\ ~CellAt(b).has_bottom_wall
      ]_vars

\* the solver has recursed at least twice and some frame's cell has an unvisited
\* neighbour behind a wall, which the solver may not enter from there
C14_Witness ==
    /\ pc = "solve"
    /\ Len(sstack) >= 3
    /\ \E i \in 1..Len(sstack) :
           \E q \in Neighbours(FrameCell(sstack[i])) :
               ~CellAt(q).visited /\ ~Linked(FrameCell(sstack[i]), q)

\* the forward moves the stack of _solve_r frames stands for: from each frame's
\* cell to the cell of the frame it called
StackMoves ==
    [i \in 1..(Len(sstack) - 1) |-> <<FrameCell(sstack[i]), FrameCell(sstack[i + 1])>>]

\* the moves ms form one simple path of passages from (0, 0) to the exit cell
IsExitPath(ms) ==
    IF ms = <<>>
    THEN is_exit(0, 0)
    ELSE /\ ms[1][1] = <<0, 0>>
         /\ is_exit(ms[Len(ms)][2][1], ms[Len(ms)][2][2])
         /\ \A i \in 1..(Len(ms) - 1) : ms[i][2] = ms[i + 1][1]
         /\ \A i \in 1..Len(ms) : ms[i][2] \in Neighbours(ms[i][1]) /\ Linked(ms[i][1], ms[i][2])
         /\ Cardinality({ms[i][1] : i \in 1..Len(ms)} \cup {ms[Len(ms)][2]}) = Len(ms) + 1

\* C15: while the for loop of the innermost call is at a candidate, the forward
\* moves not undone are exactly those of the calls on the stack (every failed move
\* has been undone before the next candidate); when a call has returned False, its
\* move is still there and the undo that follows is of that pair; when a call has
\* returned True nothing is undone or tried any more; and when solve() has returned
\* True the moves never undone form one simple passage path from (0, 0) to the exit.
C15_MovesPairedAndPath ==
    /\ (pc = "solve" /\ ret = "none") => moves = StackMoves
    /\ (pc = "solve" /\ ret = "False") =>
           moves = StackMoves \o <<(<<FrameCell(Top), Head(Top.todo)>>)>>
    /\ (pc = "solve" /\ ret = "True") =>
           /\ SubSeq(moves, 1, Len(sstack) - 1) = StackMoves
           /\ IsExitPath(moves)
    /\ (pc = "ready" /\ results # <<>> /\ results[Len(results)] = "True") =>
           IsExitPath(moves)

\* solve() has returned True after backtracking: a visited cell is not on the path
\* of two or more moves that are left
C15_Witness ==
    /\ pc = "ready"
    /\ results = <<"True">>
    /\ Len(moves) >= 2
    /\ \E p \in Coords :
           /\ CellAt(p).visited
           /\ p # <<0, 0>>
           /\ \A i \in 1..Len(moves) : moves[i][2] # p

\* C16: once the entrance and exit are broken, and so in every state after
\* construction, every wall on the outer edge of the grid is present but the left
\* wall of (0, 0) and the right wall of (num_cols - 1, num_rows - 1); and every
\* cell the generator or the solver holds (a frame of either stack, a listed
\* neighbour, an end of a move) is a cell of the grid.
C16_BoundaryClosedInBounds ==
    Created =>
        /\ \A p \in Coords :
               /\ p[2] = 0 => CellAt(p).has_top_wall
               /\ p[2] = num_rows - 1 => CellAt(p).has_bottom_wall
               /\ (p[1] = 0 /\ p # <<0, 0>>) => CellAt(p).has_left_wall
               /\ (p[1] = num_cols - 1 /\ ~is_exit(p[1], p[2])) => CellAt(p).has_right_wall
        /\ \A i \in 1..Len(gstack) : gstack[i] \in Coords
        /\ \A i \in 1..Len(sstack) :
               /\ FrameCell(sstack[i]) \in Coords
               /\ \A j \in 1..Len(sstack[i].todo) : sstack[i].todo[j] \in Coords
        /\ \A i \in 1..Len(moves) : moves[i][1] \in Coords /\ moves[i][2] \in Coords

\* the solver stands in the top right corner of a 3 x 2 maze, whose top and right
\* walls are on the outer edge, having come there through carved passages
C16_Witness ==
    /\ pc = "solve"
    /\ num_cols = 3 /\ num_rows = 2
    /\ sstack # <<>>
    /\ FrameCell(Top) = <<2, 0>>
    /\ Len(moves) = 2

\* cell p has been assigned display bounds by Cell.draw
Drawn(p) ==
    /\ CellAt(p)._x1 # None /\ CellAt(p)._y1 # None
    /\ CellAt(p)._x2 # None /\ CellAt(p)._y2 # None

\* C17: with a window attached, an origin x1 >= 0, y1 >= 0 and positive cell sizes,
\* every cell has been drawn before solving starts and no solve() call ends with
\* the "cell has no coordinates" ValueError.
C17_NoCoordinateError ==
    (Constructed /\ win) =>
        /\ \A p \in Coords : Drawn(p)
        /\ \A i \in 1..Len(results) : results[i] # "ValueError"

\* what the code does: every cell of a windowed maze is drawn before solving, and
\* solve() ends with the ValueError only when the origin lies on an axis, where a
\* drawn cell's _x1 or _y1 is 0
C17_ErrorOnlyOnAxis ==
    Constructed =>
        /\ win => \A p \in Coords : Drawn(p)
        /\ \A i \in 1..Len(results) :
               results[i] = "ValueError" => (win /\ (x1 = 0 \/ y1 = 0))
====
